---------------------------- MODULE Spec2Model ----------------------------
(***************************************************************************)
(* A model of tpotbench's Benchmark class (src/benchmark.py): the job      *)
(* enumeration methods, the selector strategy dispatch, the lifecycle      *)
(* filter of jobs() and create().                                          *)
(*                                                                         *)
(* A method of Benchmark is an operator from the object's configuration to *)
(* an outcome: the exception raised ("None" when it returns), the value    *)
(* returned and self.config as the method leaves it.  self.config is a     *)
(* mutable Python dict, so what a method leaves in it is part of what the  *)
(* method does.                                                            *)
(***************************************************************************)
EXTENDS Integers, Sequences, FiniteSets, TLC

VARIABLES
    config,     \* self.config
    ret,        \* the last call on the Benchmark and its outcome
    first,      \* history: the outcome of the first call of each enumeration
    sampled,    \* history: the first subset drawn for each (n, selection_seed)
    life,       \* the backend's lifecycle state of each job, by job identity
    nchanges,   \* how many times the backend changed a lifecycle state
    disk        \* the file system: the two directories and the jobs created

vars == <<config, ret, first, sampled, life, nchanges, disk>>

---------------------------------------------------------------------------
(* Bounds of the model. *)

MaxSeeds == 2
MaxTasks == 2
MaxSplits == 1
MaxAlgorithms == 3
MaxTimes == 2
MaxScale == 3
MaxN == 3
MaxSelectors == 2
MaxChanges == 1

---------------------------------------------------------------------------
(* Outcomes of a method call. *)

Ok(value, cfg) == [raised |-> "None", value |-> value, config |-> cfg]

Raise(error, cfg) == [raised |-> error, value |-> <<>>, config |-> cfg]

---------------------------------------------------------------------------
(* Job objects: the constructor arguments that make a job's identity. *)

single_algorithm_runner == "runners/single_algorithm_runner.py"
baseline_runner == "runners/baseline_runner.py"
selector_runner == "runners/selector_runner.py"

folders_root(cfg) == <<cfg.dir, cfg.id>>

SingleAlgorithmJob(seed, times, task, root, split, algo, runner) ==
    [kind |-> "SingleAlgorithmJob", seed |-> seed, times |-> times,
     task |-> task, root |-> root, split |-> split, name |-> algo,
     runner |-> runner, algo_jobs |-> <<>>]

BaselineJob(seed, times, task, root, split, runner) ==
    [kind |-> "BaselineJob", seed |-> seed, times |-> times,
     task |-> task, root |-> root, split |-> split, name |-> "baseline",
     runner |-> runner, algo_jobs |-> <<>>]

SelectorJob(seed, times, task, root, split, runner, name, algo_jobs) ==
    [kind |-> "SelectorJob", seed |-> seed, times |-> times,
     task |-> task, root |-> root, split |-> split, name |-> name,
     runner |-> runner, algo_jobs |-> algo_jobs]

---------------------------------------------------------------------------
(* itertools.product: the last list varies fastest. *)

product3(seeds, tasks, splits) ==
    LET nt == Len(tasks)
        ns == Len(splits)
    IN  [k \in 1..(Len(seeds) * nt * ns) |->
            <<seeds[((k - 1) \div (nt * ns)) + 1],
              tasks[(((k - 1) \div ns) % nt) + 1],
              splits[((k - 1) % ns) + 1]>>]

product4(seeds, tasks, splits, algorithms) ==
    LET nt == Len(tasks)
        ns == Len(splits)
        na == Len(algorithms)
    IN  [k \in 1..(Len(seeds) * nt * ns * na) |->
            <<seeds[((k - 1) \div (nt * ns * na)) + 1],
              tasks[(((k - 1) \div (ns * na)) % nt) + 1],
              splits[(((k - 1) \div na) % ns) + 1],
              algorithms[((k - 1) % na) + 1]>>]

---------------------------------------------------------------------------
(* Benchmark.algorithm_jobs *)

\* algorithm_jobs iterating zip(seeds, tasks, splits, algorithms)
algorithm_jobs_zipped(cfg) ==
    LET root == folders_root(cfg)
        times == cfg.times_in_mins
        shortest == CHOOSE m \in {Len(cfg.seeds), Len(cfg.openml_tasks),
                                  Len(cfg.data_splits), Len(cfg.algorithms)} :
                        /\ m <= Len(cfg.seeds) /\ m <= Len(cfg.openml_tasks)
                        /\ m <= Len(cfg.data_splits)
                        /\ m <= Len(cfg.algorithms)
    IN  Ok([k \in 1..shortest |->
               SingleAlgorithmJob(cfg.seeds[k], times, cfg.openml_tasks[k],
                                  root, cfg.data_splits[k], cfg.algorithms[k],
                                  single_algorithm_runner)], cfg)

algorithm_jobs(cfg) ==
    LET root == folders_root(cfg)
        times == cfg.times_in_mins
        p == product4(cfg.seeds, cfg.openml_tasks, cfg.data_splits,
                      cfg.algorithms)
    IN  Ok([k \in 1..Len(p) |->
               SingleAlgorithmJob(p[k][1], times, p[k][2], root, p[k][3],
                                  p[k][4], single_algorithm_runner)], cfg)

---------------------------------------------------------------------------
(* Benchmark.baseline_jobs *)

RECURSIVE baseline_times_upto(_, _, _, _)
baseline_times_upto(times, last, i, acc) ==
    IF i > last THEN acc
    ELSE baseline_times_upto(times, last, i + 1,
             acc \cup {times[x] * i : x \in DOMAIN times})

\* for i in range(1, scale): the last multiple is left out
baseline_times_short(times, scale) ==
    baseline_times_upto(times, scale - 1, 1, {})

\* lines 161-165: for i in range(1, scale+1), the union of the scaled times
baseline_times(times, scale) ==
    baseline_times_upto(times, scale, 1, {})

\* list(a_set): the elements, each once, in the set's iteration order
\* (an order that is fixed for a given set and otherwise unspecified)
RECURSIVE list_of_set(_)
list_of_set(S) ==
    IF S = {} THEN <<>>
    ELSE LET x == CHOOSE y \in S : TRUE
         IN  <<x>> \o list_of_set(S \ {x})

\* baseline_jobs writing the scaled times back into the configured list
baseline_jobs_in_place(cfg) ==
    LET root == folders_root(cfg)
        times == list_of_set(baseline_times(cfg.times_in_mins,
                                            cfg.baselines.scale))
        p == product3(cfg.seeds, cfg.openml_tasks, cfg.data_splits)
    IN  Ok([k \in 1..Len(p) |->
               BaselineJob(p[k][1], times, p[k][2], root, p[k][3],
                           baseline_runner)],
           [cfg EXCEPT !.times_in_mins = times])

baseline_jobs(cfg) ==
    LET root == folders_root(cfg)
        times == list_of_set(baseline_times(cfg.times_in_mins,
                                            cfg.baselines.scale))
        p == product3(cfg.seeds, cfg.openml_tasks, cfg.data_splits)
    IN  Ok([k \in 1..Len(p) |->
               BaselineJob(p[k][1], times, p[k][2], root, p[k][3],
                           baseline_runner)], cfg)

---------------------------------------------------------------------------
(* random.Random, as far as line 272-274 use it.  The generator's state is  *)
(* one number; a 16-bit linear congruential generator stands for the        *)
(* library's bit generator.  Random.sample and its _randbelow are the       *)
(* library's algorithms for a population of at most 21 elements.            *)

RandModulus == 65536
RandBits == 16
RandMultiplier == 25173
RandIncrement == 13849

\* Random(a): a new generator, its state fixed by the absolute value of a
Random(a) == [state |-> (IF a < 0 THEN 0 - a ELSE a) % RandModulus]

RECURSIVE Pow2(_)
Pow2(k) == IF k <= 0 THEN 1 ELSE 2 * Pow2(k - 1)

RECURSIVE bit_length(_)
bit_length(n) == IF n <= 0 THEN 0 ELSE 1 + bit_length(n \div 2)

\* getrandbits(k): advances the generator and returns its k high bits
getrandbits(rand, k) ==
    LET next == (RandMultiplier * rand.state + RandIncrement) % RandModulus
    IN  [value |-> next \div Pow2(RandBits - k), rand |-> [state |-> next]]

\* _randbelow(n): draw bit_length(n) bits until the draw is below n
RECURSIVE randbelow(_, _)
randbelow(rand, n) ==
    LET r == getrandbits(rand, bit_length(n))
    IN  IF r.value >= n THEN randbelow(r.rand, n) ELSE r

\* the pool loop of sample: result[i] = pool[j]; pool[j] = pool[n-i-1]
RECURSIVE sample_loop(_, _, _, _, _, _)
sample_loop(rand, pool, n, k, i, result) ==
    IF i >= k THEN [raised |-> "None", value |-> result, rand |-> rand]
    ELSE LET r == randbelow(rand, n - i)
             j == r.value + 1
         IN  sample_loop(r.rand, [pool EXCEPT ![j] = pool[n - i]], n, k,
                         i + 1, Append(result, pool[j]))

\* the pool loop without pool[j] = pool[n-i-1]: a drawn element stays in
RECURSIVE sample_loop_keeping(_, _, _, _, _, _)
sample_loop_keeping(rand, pool, n, k, i, result) ==
    IF i >= k THEN [raised |-> "None", value |-> result, rand |-> rand]
    ELSE LET r == randbelow(rand, n - i)
             j == r.value + 1
         IN  sample_loop_keeping(r.rand, pool, n, k, i + 1,
                                 Append(result, pool[j]))

\* sample drawing with replacement
sample_with_replacement(rand, population, k) ==
    LET n == Len(population)
    IN  IF ~(0 <= k /\ k <= n)
        THEN [raised |-> "ValueError", value |-> <<>>, rand |-> rand]
        ELSE sample_loop_keeping(rand, population, n, k, 0, <<>>)

\* sample drawing at most len(population) elements instead of raising
sample_clamped(rand, population, k) ==
    LET n == Len(population)
        m == IF k > n THEN n ELSE k
    IN  sample_loop(rand, population, n, m, 0, <<>>)

\* rand.sample(population, k): ValueError unless 0 <= k <= len(population)
sample(rand, population, k) ==
    LET n == Len(population)
    IN  IF ~(0 <= k /\ k <= n)
        THEN [raised |-> "ValueError", value |-> <<>>, rand |-> rand]
        ELSE sample_loop(rand, population, n, k, 0, <<>>)

---------------------------------------------------------------------------
(* The selector strategies. *)

\* the algorithm jobs a selector job uses the results of (lines 216-220,
\* 278-282)
selector_algorithm_jobs(cfg, seed, task, split, algorithms) ==
    [a \in 1..Len(algorithms) |->
        SingleAlgorithmJob(seed, cfg.times_in_mins, task, folders_root(cfg),
                           split, algorithms[a], single_algorithm_runner)]

\* the loop over product(seeds, tasks, splits) of lines 214-225 and 276-286
selector_jobs_for(cfg, name, algorithms) ==
    LET p == product3(cfg.seeds, cfg.openml_tasks, cfg.data_splits)
    IN  [k \in 1..Len(p) |->
            SelectorJob(p[k][1], cfg.times_in_mins, p[k][2],
                        folders_root(cfg), p[k][3], selector_runner, name,
                        selector_algorithm_jobs(cfg, p[k][1], p[k][2],
                                                p[k][3], algorithms))]

\* selector_jobs_all leaving out the first configured algorithm
selector_jobs_all_but_first(cfg, selector_config) ==
    Ok(selector_jobs_for(cfg, selector_config.name,
                         SubSeq(cfg.algorithms, 2, Len(cfg.algorithms))),
       cfg)

selector_jobs_all(cfg, selector_config) ==
    Ok(selector_jobs_for(cfg, selector_config.name, cfg.algorithms), cfg)

selector_jobs_n_top(cfg, selector_config) == Ok(<<>>, cfg)

selector_jobs_n_least_overlapping(cfg, selector_config) == Ok(<<>>, cfg)

selector_jobs_n_most_coverage(cfg, selector_config) == Ok(<<>>, cfg)

\* f'{selector_config["name"]}_{selection_seed}'
selector_name(selector_config, selection_seed) ==
    selector_config.name \o "_" \o ToString(selection_seed)

\* the loop of lines 271-286 with one generator, made before the loop and
\* used for every selection seed
RECURSIVE n_random_loop_shared(_, _, _, _, _)
n_random_loop_shared(cfg, selector_config, rand, i, jobs) ==
    LET selection_seeds == selector_config.selection_seeds
    IN  IF i > Len(selection_seeds) THEN Ok(jobs, cfg)
        ELSE LET s == sample(rand, cfg.algorithms, selector_config.n)
             IN  IF s.raised # "None" THEN Raise(s.raised, cfg)
                 ELSE n_random_loop_shared(cfg, selector_config, s.rand,
                          i + 1,
                          jobs \o selector_jobs_for(cfg,
                                      selector_name(selector_config,
                                                    selection_seeds[i]),
                                      s.value))

selector_jobs_n_random_shared(cfg, selector_config) ==
    IF selector_config.selection_seeds = <<>> THEN Ok(<<>>, cfg)
    ELSE n_random_loop_shared(cfg, selector_config,
             Random(selector_config.selection_seeds[1] * selector_config.n),
             1, <<>>)

\* the loop of lines 271-286: a generator of its own for each selection seed
RECURSIVE n_random_loop(_, _, _, _)
n_random_loop(cfg, selector_config, i, jobs) ==
    LET n_algorithms == selector_config.n
        selection_seeds == selector_config.selection_seeds
    IN  IF i > Len(selection_seeds) THEN Ok(jobs, cfg)
        ELSE LET rand == Random(selection_seeds[i] * n_algorithms)
                 s == sample(rand, cfg.algorithms, n_algorithms)
             IN  IF s.raised # "None" THEN Raise(s.raised, cfg)
                 ELSE n_random_loop(cfg, selector_config, i + 1,
                          jobs \o selector_jobs_for(cfg,
                                      selector_name(selector_config,
                                                    selection_seeds[i]),
                                      s.value))

selector_jobs_n_random(cfg, selector_config) ==
    n_random_loop(cfg, selector_config, 1, <<>>)

---------------------------------------------------------------------------
(* Benchmark.selector_jobs *)

\* the keys of the functions dict of lines 182-188
functions_keys ==
    {"all", "top_n", "n_most_coverage", "n_random_selection",
     "n_least_overlapping"}

\* functions[selector_type](selector_config)
get_selector(cfg, selector_config) ==
    CASE selector_config.type = "all" ->
            selector_jobs_all(cfg, selector_config)
      [] selector_config.type = "top_n" ->
            selector_jobs_n_top(cfg, selector_config)
      [] selector_config.type = "n_most_coverage" ->
            selector_jobs_n_most_coverage(cfg, selector_config)
      [] selector_config.type = "n_random_selection" ->
            selector_jobs_n_random(cfg, selector_config)
      [] selector_config.type = "n_least_overlapping" ->
            selector_jobs_n_least_overlapping(cfg, selector_config)

\* the loop of lines 190-196 with functions.get(selector_type): a spec of
\* unknown type is skipped
RECURSIVE selector_jobs_loop_skipping(_, _, _)
selector_jobs_loop_skipping(cfg, i, jobs) ==
    IF i > Len(cfg.selectors) THEN Ok(jobs, cfg)
    ELSE LET selector_config == cfg.selectors[i]
         IN  IF selector_config.type \notin functions_keys
             THEN selector_jobs_loop_skipping(cfg, i + 1, jobs)
             ELSE LET r == get_selector(cfg, selector_config)
                  IN  IF r.raised # "None" THEN r
                      ELSE selector_jobs_loop_skipping(r.config, i + 1,
                                                       jobs \o r.value)

selector_jobs_skipping(cfg) == selector_jobs_loop_skipping(cfg, 1, <<>>)

\* the loop of lines 190-196: a failed lookup or strategy ends the call
RECURSIVE selector_jobs_loop(_, _, _)
selector_jobs_loop(cfg, i, jobs) ==
    IF i > Len(cfg.selectors) THEN Ok(jobs, cfg)
    ELSE LET selector_config == cfg.selectors[i]
         IN  IF selector_config.type \notin functions_keys
             THEN Raise("KeyError", cfg)
             ELSE LET r == get_selector(cfg, selector_config)
                  IN  IF r.raised # "None" THEN r
                      ELSE selector_jobs_loop(r.config, i + 1,
                                              jobs \o r.value)

selector_jobs(cfg) == selector_jobs_loop(cfg, 1, <<>>)

---------------------------------------------------------------------------
(* The job objects' lifecycle queries and create(), which the jobs module  *)
(* and the backend behind it answer.                                       *)

LifeStates == {"ready", "failed", "blocked", "pending", "running", "complete"}

\* what names a job to the backend
JobKey(job) == <<job.kind, job.seed, job.task, job.split, job.name>>

\* job.<query>() for the seven queries, under the backend's states lifecycle
job_query(query, job, lifecycle) ==
    LET state == lifecycle[JobKey(job)]
    IN  IF query = "in_progress" THEN state \in {"pending", "running"}
        ELSE state = query

\* job.create() on the file system fs: the job is there afterwards, whether
\* it was before or not
job_create(job, fs) == [fs EXCEPT !.jobs = @ \cup {JobKey(job)}]

---------------------------------------------------------------------------
(* Benchmark.job_filters and Benchmark.jobs *)

filter_types ==
    {"ready", "failed", "blocked", "pending", "running", "complete",
     "in_progress"}

\* job_filters with 'in_progress' mapped to job.running()
job_filters_in_progress_as_running(filter_by, job, lifecycle) ==
    CASE filter_by = "ready" -> job_query("ready", job, lifecycle)
      [] filter_by = "failed" -> job_query("failed", job, lifecycle)
      [] filter_by = "blocked" -> job_query("blocked", job, lifecycle)
      [] filter_by = "pending" -> job_query("pending", job, lifecycle)
      [] filter_by = "running" -> job_query("running", job, lifecycle)
      [] filter_by = "complete" -> job_query("complete", job, lifecycle)
      [] filter_by = "in_progress" -> job_query("running", job, lifecycle)

\* job_filters[filter_by](job)
job_filters(filter_by, job, lifecycle) ==
    CASE filter_by = "ready" -> job_query("ready", job, lifecycle)
      [] filter_by = "failed" -> job_query("failed", job, lifecycle)
      [] filter_by = "blocked" -> job_query("blocked", job, lifecycle)
      [] filter_by = "pending" -> job_query("pending", job, lifecycle)
      [] filter_by = "running" -> job_query("running", job, lifecycle)
      [] filter_by = "complete" -> job_query("complete", job, lifecycle)
      [] filter_by = "in_progress" ->
            job_query("in_progress", job, lifecycle)

\* jobs(filter_by): filter_by "None" is the default argument
jobs(cfg, filter_by, lifecycle) ==
    LET a == algorithm_jobs(cfg)
        s == selector_jobs(a.config)
    IN  IF s.raised # "None" THEN s
        ELSE LET b == baseline_jobs(s.config)
                 job_iter == a.value \o s.value \o b.value
             IN  IF filter_by # "None"
                 THEN IF filter_by \notin filter_types
                      THEN Raise("KeyError", b.config)
                      ELSE Ok(SelectSeq(job_iter,
                                  LAMBDA job :
                                      job_filters(filter_by, job, lifecycle)),
                              b.config)
                 ELSE Ok(job_iter, b.config)

---------------------------------------------------------------------------
(* Benchmark.create.  fault says which file system operation fails in this *)
(* call, if the call makes it: at is "mkdir_dir", "mkdir_root", "job" (the *)
(* create() of the job numbered fault.job in the sequence) or "none".      *)

\* os.mkdir(path): fails on a path that exists
mkdir(exists, failing) ==
    IF exists THEN "FileExistsError"
    ELSE IF failing THEN "OSError" ELSE "None"

\* for job in self.jobs(): job.create()
RECURSIVE create_jobs(_, _, _, _, _)
create_jobs(job_list, i, fs, fault, cfg) ==
    IF i > Len(job_list)
    THEN [raised |-> "None", created |-> job_list, disk |-> fs,
          config |-> cfg]
    ELSE IF fault.at = "job" /\ fault.job = i
         THEN [raised |-> "OSError", created |-> SubSeq(job_list, 1, i),
               disk |-> fs, config |-> cfg]
         ELSE create_jobs(job_list, i + 1, job_create(job_list[i], fs),
                          fault, cfg)

\* job.create() on each job of the sequence, if there is one: j is the
\* outcome of self.jobs()
create_each(j, fs, fault) ==
    IF j.raised # "None"
    THEN [raised |-> j.raised, created |-> <<>>, disk |-> fs,
          config |-> j.config]
    ELSE create_jobs(j.value, 1, fs, fault, j.config)

\* lines 83-84, after the two directories are there
create_all(cfg, fs, fault, lifecycle) ==
    create_each(jobs(cfg, "None", lifecycle), fs, fault)

\* create() calling os.mkdir without asking os.path.exists first
create_unguarded(cfg, fs, fault, lifecycle) ==
    LET e1 == mkdir(fs.dir, fault.at = "mkdir_dir")
        fs1 == [fs EXCEPT !.dir = TRUE]
        e2 == mkdir(fs.root, fault.at = "mkdir_root")
        fs2 == [fs1 EXCEPT !.root = TRUE]
    IN  IF e1 # "None"
        THEN [raised |-> e1, created |-> <<>>, disk |-> fs, config |-> cfg]
        ELSE IF e2 # "None"
        THEN [raised |-> e2, created |-> <<>>, disk |-> fs1, config |-> cfg]
        ELSE create_all(cfg, fs2, fault, lifecycle)

create(cfg, fs, fault, lifecycle) ==
    LET e1 == IF ~fs.dir THEN mkdir(fs.dir, fault.at = "mkdir_dir") ELSE "None"
        fs1 == [fs EXCEPT !.dir = TRUE]
        e2 == IF ~fs.root THEN mkdir(fs.root, fault.at = "mkdir_root")
              ELSE "None"
        fs2 == [fs1 EXCEPT !.root = TRUE]
    IN  IF e1 # "None"
        THEN [raised |-> e1, created |-> <<>>, disk |-> fs, config |-> cfg]
        ELSE IF e2 # "None"
        THEN [raised |-> e2, created |-> <<>>, disk |-> fs1, config |-> cfg]
        ELSE create_all(cfg, fs2, fault, lifecycle)

---------------------------------------------------------------------------
(* Configurations.  The lists are those of default_config                  *)
(* (src/bench_config.py), cut or repeated to the length wanted.            *)

BaseSeeds == <<5, 7>>
BaseTasks == <<3, 6, 11, 12, 14, 15, 16, 18, 22, 23>>
BaseTimes == <<30, 60, 90, 120, 150, 180, 210, 240, 270, 300, 330, 360>>
BaseSplits == << <<5, 3, 2>>, <<6, 2, 2>> >>
BaseAlgorithms == <<"NB", "TR", "KNN", "MLP", "LR", "XGB", "SVM", "SGD">>

Take(base, k) == [i \in 1..k |-> base[((i - 1) % Len(base)) + 1]]

SelectorSpec(name, type, n, selection_seeds) ==
    [name |-> name, type |-> type, n |-> n,
     selection_seeds |-> selection_seeds]

NoSelector == SelectorSpec("", "", 0, <<>>)

SelectionSeeds == 1..2

SelectionSeedLists ==
    {<<>>} \cup {<<s>> : s \in SelectionSeeds}
           \cup {<<s, t>> : s \in SelectionSeeds, t \in SelectionSeeds}

RandomSpecs ==
    {SelectorSpec("RAN" \o ToString(n), "n_random_selection", n, ss) :
        n \in 0..MaxN, ss \in SelectionSeedLists}

FixedSpecs ==
    {SelectorSpec("ALL", "all", 0, <<>>),
     SelectorSpec("TOP3", "top_n", 3, <<>>),
     SelectorSpec("LO3", "n_least_overlapping", 3, <<>>),
     SelectorSpec("MC3", "n_most_coverage", 3, <<>>),
     SelectorSpec("BOGUS", "bogus", 0, <<>>)}

Config(seeds, tasks, splits, algorithms, times, scale, selectors) ==
    [id |-> "tpot_bench", username |-> "eb130475", dir |-> "./data",
     seeds |-> seeds, openml_tasks |-> tasks, times_in_mins |-> times,
     data_splits |-> splits, algorithms |-> algorithms,
     selectors |-> selectors, baselines |-> [scale |-> scale]]

\* every size of every list of the job matrix, every scale
LeafConfigs ==
    {Config(Take(BaseSeeds, a), Take(BaseTasks, b), Take(BaseSplits, c),
            Take(BaseAlgorithms, d), Take(BaseTimes, e), f,
            <<SelectorSpec("ALL", "all", 0, <<>>)>>) :
        a \in 0..MaxSeeds, b \in 0..MaxTasks, c \in 0..MaxSplits,
        d \in 0..MaxAlgorithms, e \in 0..MaxTimes, f \in 1..MaxScale}

\* lists of at most MaxSelectors selector specs: the fixed strategies, a
\* spec of unknown type, a random selection of each of the two largest
\* counts with two selection seeds, and one of the largest count with no
\* selection seed
RECURSIVE ListsUpTo(_, _)
ListsUpTo(specs, k) ==
    IF k = 0 THEN {<<>>}
    ELSE LET shorter == ListsUpTo(specs, k - 1)
         IN  shorter \cup {Append(l, x) : l \in shorter, x \in specs}

SelectorLists ==
    ListsUpTo(FixedSpecs \cup
              {r \in RandomSpecs :
                  \/ r.selection_seeds = <<1, 2>> /\ r.n >= MaxN - 1
                  \/ r.selection_seeds = <<>> /\ r.n = MaxN},
              MaxSelectors)

\* every list of selector specs, over every number of algorithms
SelConfigs ==
    {Config(Take(BaseSeeds, MaxSeeds), Take(BaseTasks, 1),
            Take(BaseSplits, MaxSplits), Take(BaseAlgorithms, d),
            Take(BaseTimes, 1), 1, l) :
        d \in 0..MaxAlgorithms, l \in SelectorLists}

\* every number of algorithms and of seeds, and a list of algorithms that
\* names one twice
RandomConfigs ==
    {Config(Take(BaseSeeds, a), Take(BaseTasks, 1),
            Take(BaseSplits, MaxSplits), algorithms, Take(BaseTimes, 1), 1,
            <<>>) :
        a \in 0..MaxSeeds,
        algorithms \in {Take(BaseAlgorithms, d) : d \in 0..MaxAlgorithms}
                       \cup {Take(<<"NB", "NB", "TR">>, MaxAlgorithms)}}

\* configurations to enumerate again and again: selectors that resolve,
\* that draw at random, that are unknown and that ask for too many
EnumConfigs ==
    {Config(Take(BaseSeeds, a), Take(BaseTasks, 1),
            Take(BaseSplits, MaxSplits), Take(BaseAlgorithms, MaxAlgorithms),
            Take(BaseTimes, e), f, l) :
        a \in 1..MaxSeeds, e \in 1..MaxTimes, f \in 1..MaxScale,
        l \in {<<>>,
               <<SelectorSpec("ALL", "all", 0, <<>>),
                 SelectorSpec("RAN2", "n_random_selection", 2, <<1, 2>>)>>,
               <<SelectorSpec("ALL", "all", 0, <<>>),
                 SelectorSpec("BOGUS", "bogus", 0, <<>>)>>,
               <<SelectorSpec("RAN", "n_random_selection",
                              MaxAlgorithms + 1, <<1>>)>>}}

\* one algorithm job, one selector job and one baseline job
FilterConfigs ==
    {Config(Take(BaseSeeds, 1), Take(BaseTasks, 1), Take(BaseSplits, 1),
            Take(BaseAlgorithms, 1), Take(BaseTimes, 1), 1,
            <<SelectorSpec("ALL", "all", 0, <<>>)>>)}

\* configurations to create: with jobs, and with a selector of unknown type
CreateConfigs ==
    {Config(Take(BaseSeeds, 1), Take(BaseTasks, b), Take(BaseSplits, 1),
            Take(BaseAlgorithms, 2), Take(BaseTimes, 1), 1, l) :
        b \in 1..MaxTasks,
        l \in {<<SelectorSpec("ALL", "all", 0, <<>>)>>,
               <<SelectorSpec("ALL", "all", 0, <<>>),
                 SelectorSpec("BOGUS", "bogus", 0, <<>>)>>}}

\* the arguments of jobs(): no filter, the seven filters, an unknown one
FilterArguments == filter_types \cup {"None", "queued"}

\* what can fail in a create() of the configuration cfg
Faults(cfg) ==
    {[at |-> a, job |-> 0] : a \in {"none", "mkdir_dir", "mkdir_root"}}
    \cup {[at |-> "job", job |-> k] :
             k \in DOMAIN jobs(cfg, "None", <<>>).value}

---------------------------------------------------------------------------
(* The state machine: one action for each method called on the Benchmark,  *)
(* and one for the backend changing a job's lifecycle state.               *)

EnumOps == {"algorithm_jobs", "baseline_jobs", "selector_jobs", "jobs"}

NotCalled == [raised |-> "NotCalled", value |-> <<>>]

NoFault == [at |-> "none", job |-> 0]

\* the last call: the method, its arguments, what it raised or returned, the
\* jobs create() was called on, and the backend, the file system and the
\* configuration as the call found them
Called(op, selector_config, filter_by, raised, value, created) ==
    [op |-> op, selector_config |-> selector_config, filter_by |-> filter_by,
     raised |-> raised, value |-> value, created |-> created,
     env |-> [life |-> life, disk |-> disk, config |-> config]]

Remember(op, r) ==
    IF first[op] = NotCalled
    THEN [first EXCEPT ![op] = [raised |-> r.raised, value |-> r.value]]
    ELSE first

\* the keys of the jobs of a configuration
JobKeys(cfg) ==
    LET j == jobs(cfg, "None", <<>>)
    IN  {JobKey(j.value[i]) : i \in DOMAIN j.value}

\* a Benchmark made from one of configs, and nothing called on it yet
InitBenchmark(configs) ==
    /\ config \in configs
    /\ ret = [op |-> "None", selector_config |-> NoSelector,
              filter_by |-> "None", raised |-> "None", value |-> <<>>,
              created |-> <<>>,
              env |-> [life |-> <<>>, disk |-> <<>>, config |-> <<>>]]
    /\ first = [op \in EnumOps |-> NotCalled]
    /\ sampled = {}
    /\ nchanges = 0

\* no job has been submitted: the backend reports each one ready
InitReady == life = [k \in JobKeys(config) |-> "ready"]

\* the backend in any state
InitAnyLife == life \in [JobKeys(config) -> LifeStates]

\* nothing of the benchmark on the file system
InitNoDisk == disk = [dir |-> FALSE, root |-> FALSE, jobs |-> {}]

\* config['dir'] made by the user or not, nothing else
InitSomeDisk ==
    \E d \in BOOLEAN : disk = [dir |-> d, root |-> FALSE, jobs |-> {}]

Call_algorithm_jobs ==
    LET r == algorithm_jobs(config)
    IN  /\ config' = r.config
        /\ ret' = Called("algorithm_jobs", NoSelector, "None", r.raised,
                         r.value, <<>>)
        /\ first' = Remember("algorithm_jobs", r)
        /\ UNCHANGED <<sampled, life, nchanges, disk>>

Call_baseline_jobs ==
    LET r == baseline_jobs(config)
    IN  /\ config' = r.config
        /\ ret' = Called("baseline_jobs", NoSelector, "None", r.raised,
                         r.value, <<>>)
        /\ first' = Remember("baseline_jobs", r)
        /\ UNCHANGED <<sampled, life, nchanges, disk>>

Call_selector_jobs ==
    LET r == selector_jobs(config)
    IN  /\ config' = r.config
        /\ ret' = Called("selector_jobs", NoSelector, "None", r.raised,
                         r.value, <<>>)
        /\ first' = Remember("selector_jobs", r)
        /\ UNCHANGED <<sampled, life, nchanges, disk>>

\* the sub-selectors of a selector_jobs_n_random result: for each selection
\* seed and each job made for it, the count, the seed and the names of the
\* algorithms the job depends on
Names(job) == [a \in DOMAIN job.algo_jobs |-> job.algo_jobs[a].name]

Drawn(cfg, selector_config, value) ==
    LET per == Len(product3(cfg.seeds, cfg.openml_tasks, cfg.data_splits))
    IN  {[n |-> selector_config.n,
          s |-> selector_config.selection_seeds[((k - 1) \div per) + 1],
          algorithms |-> Names(value[k])] : k \in DOMAIN value}

Call_selector_jobs_all(selector_config) ==
    LET r == selector_jobs_all(config, selector_config)
    IN  /\ config' = r.config
        /\ ret' = Called("selector_jobs_all", selector_config, "None",
                         r.raised, r.value, <<>>)
        /\ UNCHANGED <<first, sampled, life, nchanges, disk>>

Call_selector_jobs_n_random(selector_config) ==
    LET r == selector_jobs_n_random(config, selector_config)
    IN  /\ config' = r.config
        /\ ret' = Called("selector_jobs_n_random", selector_config, "None",
                         r.raised, r.value, <<>>)
        /\ sampled' = IF sampled = {}
                      THEN Drawn(config, selector_config, r.value)
                      ELSE sampled
        /\ UNCHANGED <<first, life, nchanges, disk>>

Call_jobs(filter_by) ==
    LET r == jobs(config, filter_by, life)
    IN  /\ config' = r.config
        /\ ret' = Called("jobs", NoSelector, filter_by, r.raised, r.value,
                         <<>>)
        /\ first' = IF filter_by = "None" THEN Remember("jobs", r) ELSE first
        /\ UNCHANGED <<sampled, life, nchanges, disk>>

Call_create(fault) ==
    LET r == create(config, disk, fault, life)
    IN  /\ config' = r.config
        /\ ret' = Called("create", NoSelector, "None", r.raised, <<>>,
                         r.created)
        /\ disk' = r.disk
        /\ UNCHANGED <<first, sampled, life, nchanges>>

\* the backend moves a job to another lifecycle state
BackendChange(key, state) ==
    /\ nchanges < MaxChanges
    /\ life[key] # state
    /\ life' = [life EXCEPT ![key] = state]
    /\ nchanges' = nchanges + 1
    /\ UNCHANGED <<config, ret, first, sampled, disk>>

InitLeaf == InitBenchmark(LeafConfigs) /\ InitReady /\ InitNoDisk

NextLeaf == Call_algorithm_jobs \/ Call_baseline_jobs

SpecLeaf == InitLeaf /\ [][NextLeaf]_vars

InitSel == InitBenchmark(SelConfigs) /\ InitReady /\ InitNoDisk

NextSel ==
    \/ Call_selector_jobs
    \/ \E i \in DOMAIN config.selectors :
          Call_selector_jobs_all(config.selectors[i])
    \/ \E i \in DOMAIN config.selectors :
          /\ config.selectors[i].type = "n_random_selection"
          /\ Call_selector_jobs_n_random(config.selectors[i])

SpecSel == InitSel /\ [][NextSel]_vars

InitRandom == InitBenchmark(RandomConfigs) /\ InitReady /\ InitNoDisk

NextRandom == \E selector_config \in RandomSpecs :
                  Call_selector_jobs_n_random(selector_config)

SpecRandom == InitRandom /\ [][NextRandom]_vars

InitEnum == InitBenchmark(EnumConfigs) /\ InitReady /\ InitNoDisk

NextEnum ==
    \/ Call_algorithm_jobs
    \/ Call_baseline_jobs
    \/ Call_selector_jobs
    \/ \E filter_by \in FilterArguments : Call_jobs(filter_by)

SpecEnum == InitEnum /\ [][NextEnum]_vars

InitFilter == InitBenchmark(FilterConfigs) /\ InitAnyLife /\ InitNoDisk

NextFilter ==
    \/ \E filter_by \in FilterArguments \ {"None"} : Call_jobs(filter_by)
    \/ \E key \in DOMAIN life, state \in LifeStates :
          BackendChange(key, state)

SpecFilter == InitFilter /\ [][NextFilter]_vars

InitCreate == InitBenchmark(CreateConfigs) /\ InitReady /\ InitSomeDisk

NextCreate == \E fault \in Faults(config) : Call_create(fault)

SpecCreate == InitCreate /\ [][NextCreate]_vars

---------------------------------------------------------------------------
(* The leaf job factories. *)

Range(seq) == {seq[i] : i \in DOMAIN seq}

Count(seq, x) == Cardinality({i \in DOMAIN seq : seq[i] = x})

\* how many jobs of a list are for (seed, task, split) and named name
JobsFor(value, seed, task, split, name) ==
    Cardinality({i \in DOMAIN value :
        /\ value[i].seed = seed /\ value[i].task = task
        /\ value[i].split = split /\ value[i].name = name})

NonEmptyMatrix ==
    /\ config.seeds # <<>> /\ config.openml_tasks # <<>>
    /\ config.data_splits # <<>> /\ config.algorithms # <<>>

\* C1: with non-empty seeds, tasks, splits and algorithms, algorithm_jobs()
\* returns |seeds|*|tasks|*|splits|*|algorithms| jobs, one for each element
\* of seeds x tasks x splits x algorithms, and baseline_jobs() returns
\* |seeds|*|tasks|*|splits| jobs, one for each element of seeds x tasks x
\* splits.
C1_JobCounts ==
    NonEmptyMatrix =>
    /\ ret.op = "algorithm_jobs" =>
        /\ ret.raised = "None"
        /\ Len(ret.value) = Len(config.seeds) * Len(config.openml_tasks)
                            * Len(config.data_splits) * Len(config.algorithms)
        /\ \A i \in DOMAIN ret.value : ret.value[i].kind = "SingleAlgorithmJob"
        /\ \A s \in Range(config.seeds), t \in Range(config.openml_tasks),
              p \in Range(config.data_splits), a \in Range(config.algorithms) :
              JobsFor(ret.value, s, t, p, a) =
                  Count(config.seeds, s) * Count(config.openml_tasks, t)
                  * Count(config.data_splits, p) * Count(config.algorithms, a)
    /\ ret.op = "baseline_jobs" =>
        /\ ret.raised = "None"
        /\ Len(ret.value) = Len(config.seeds) * Len(config.openml_tasks)
                            * Len(config.data_splits)
        /\ \A i \in DOMAIN ret.value : ret.value[i].kind = "BaselineJob"
        /\ \A s \in Range(config.seeds), t \in Range(config.openml_tasks),
              p \in Range(config.data_splits) :
              JobsFor(ret.value, s, t, p, "baseline") =
                  Count(config.seeds, s) * Count(config.openml_tasks, t)
                  * Count(config.data_splits, p)

\* both lists returned for a matrix of 2 seeds, 2 tasks, 1 split and 3
\* algorithms
C1_Witness ==
    /\ Len(config.seeds) = 2 /\ Len(config.openml_tasks) = 2
    /\ Len(config.data_splits) = 1 /\ Len(config.algorithms) = 3
    /\ ret.op = "baseline_jobs" /\ Len(ret.value) = 4
    /\ first["algorithm_jobs"].raised = "None"
    /\ Len(first["algorithm_jobs"].value) = 12

\* the time budgets of every baseline job returned are exactly
\* { t*i : t in times_in_mins, 1 <= i <= scale }, none of them twice
BaselineTimesScaled ==
    (ret.op = "baseline_jobs" /\ config.baselines.scale >= 1) =>
    \A k \in DOMAIN ret.value :
        LET times == ret.value[k].times
        IN  /\ Range(times) =
                 {t * i : t \in Range(config.times_in_mins),
                          i \in 1..config.baselines.scale}
            /\ \A x, y \in DOMAIN times : x # y => times[x] # times[y]

\* the time budgets of every baseline job returned are exactly budgets
BaselineTimesAre(budgets) ==
    ret.op = "baseline_jobs" =>
    \A k \in DOMAIN ret.value : Range(ret.value[k].times) = budgets

\* C2: every baseline job carries exactly the time budgets
\* { t*i : t in times_in_mins, 1 <= i <= scale }, none of them twice; for
\* times [30, 60] and scale 3 these are the five values 30, 60, 90, 120, 180.
C2_BaselineTimes ==
    /\ BaselineTimesScaled
    /\ (config.times_in_mins = <<30, 60>> /\ config.baselines.scale = 3) =>
           BaselineTimesAre({30, 60, 90, 120, 180})

\* C2, the statement as documented: for times [30, 60] and scale 3 the
\* budgets are exactly {30, 60, 90, 120, 150, 180}.
C2_AsClaimed ==
    /\ BaselineTimesScaled
    /\ (config.times_in_mins = <<30, 60>> /\ config.baselines.scale = 3) =>
           BaselineTimesAre({30, 60, 90, 120, 150, 180})

\* baseline jobs returned for times [30, 60] at scale 3, where 60 is both
\* 30*2 and 60*1
C2_Witness ==
    /\ ret.op = "baseline_jobs" /\ ret.value # <<>>
    /\ config.times_in_mins = <<30, 60>> /\ config.baselines.scale = 3
    /\ Len(ret.value[1].times) = 5

---------------------------------------------------------------------------
(* The selector strategy resolver. *)

\* the selector types a spec may have
SelectorTypes ==
    {"all", "top_n", "n_least_overlapping", "n_most_coverage",
     "n_random_selection"}

UnknownType(i) == config.selectors[i].type \notin SelectorTypes

\* a random selection that draws (it has a selection seed) and asks for more
\* algorithms than are configured
Insufficient(selector_config) ==
    /\ selector_config.type = "n_random_selection"
    /\ selector_config.selection_seeds # <<>>
    /\ selector_config.n > Len(config.algorithms)

\* spec i is the first of the configured specs that cannot be resolved
FirstToFail(i) ==
    /\ UnknownType(i) \/ Insufficient(config.selectors[i])
    /\ \A j \in 1..(i - 1) :
          ~UnknownType(j) /\ ~Insufficient(config.selectors[j])

\* C3: when the selectors list holds a spec of unknown type, selector_jobs()
\* fails and returns no job list, neither for that spec nor for another; the
\* error is the KeyError of the lookup of the type when no spec before it
\* has failed.
C3_UnknownSelectorFails ==
    (ret.op = "selector_jobs" /\ \E i \in DOMAIN config.selectors :
                                     UnknownType(i)) =>
    /\ ret.raised # "None"
    /\ ret.value = <<>>
    /\ \A i \in DOMAIN config.selectors :
          (UnknownType(i) /\ FirstToFail(i)) => ret.raised = "KeyError"

\* C3, the statement as documented: the error is UnknownSelectorType.
C3_AsClaimed ==
    (ret.op = "selector_jobs" /\ \E i \in DOMAIN config.selectors :
                                     UnknownType(i)) =>
    /\ ret.raised = "UnknownSelectorType"
    /\ ret.value = <<>>

\* selector_jobs() called with an 'all' spec before a spec of unknown type
C3_Witness ==
    /\ ret.op = "selector_jobs"
    /\ Len(config.selectors) = 2 /\ config.algorithms # <<>>
    /\ config.selectors[1].type = "all"
    /\ config.selectors[2].type = "bogus"
    /\ ret.raised = "KeyError"

\* C4: when a random selection with a selection seed asks for more
\* algorithms than are configured, selector_jobs_n_random fails with the
\* ValueError of Random.sample, and selector_jobs() as a whole fails and
\* returns no jobs of any spec, with that ValueError when no spec before it
\* has failed; a random selection without a selection seed draws nothing and
\* returns no jobs and no error.
C4_InsufficientFails ==
    /\ (ret.op = "selector_jobs_n_random" /\ Insufficient(ret.selector_config))
           => (ret.raised = "ValueError" /\ ret.value = <<>>)
    /\ (ret.op = "selector_jobs_n_random"
        /\ ret.selector_config.selection_seeds = <<>>)
           => (ret.raised = "None" /\ ret.value = <<>>)
    /\ (ret.op = "selector_jobs" /\ \E i \in DOMAIN config.selectors :
                                        Insufficient(config.selectors[i])) =>
        /\ ret.raised # "None"
        /\ ret.value = <<>>
        /\ \A i \in DOMAIN config.selectors :
              (Insufficient(config.selectors[i]) /\ FirstToFail(i)) =>
                  ret.raised = "ValueError"

\* the jobs of value from position i on are the list part
HoldsAt(value, i, part) ==
    /\ i + Len(part) - 1 <= Len(value)
    /\ \A k \in DOMAIN part : value[i + k - 1] = part[k]

\* C4, the statement as documented: the failure ends only that selector
\* instance, and selector_jobs() still returns the jobs of the other specs.
C4_AsClaimed ==
    (ret.op = "selector_jobs" /\ \E i \in DOMAIN config.selectors :
                                     Insufficient(config.selectors[i])) =>
    /\ ret.raised = "None"
    /\ \A i \in DOMAIN config.selectors :
          config.selectors[i].type = "all" =>
              \E k \in 1..(Len(ret.value) + 1) :
                  HoldsAt(ret.value, k,
                          selector_jobs_all(config, config.selectors[i]).value)

\* selector_jobs() called with an 'all' spec before a random selection of 3
\* out of 2 algorithms
C4_Witness ==
    /\ ret.op = "selector_jobs"
    /\ Len(config.selectors) = 2 /\ Len(config.algorithms) = 2
    /\ config.selectors[1].type = "all"
    /\ config.selectors[2].type = "n_random_selection"
    /\ config.selectors[2].n = 3
    /\ config.selectors[2].selection_seeds = <<1, 2>>
    /\ ret.raised = "ValueError"

\* a selector job of the 'all' strategy: it depends on one algorithm job for
\* each configured algorithm, in the configured order, each with the
\* selector job's seed, task and split
DependsOnAll(job) ==
    /\ job.kind = "SelectorJob"
    /\ Len(job.algo_jobs) = Len(config.algorithms)
    /\ \A a \in DOMAIN job.algo_jobs :
          /\ job.algo_jobs[a].kind = "SingleAlgorithmJob"
          /\ job.algo_jobs[a].name = config.algorithms[a]
          /\ job.algo_jobs[a].seed = job.seed
          /\ job.algo_jobs[a].task = job.task
          /\ job.algo_jobs[a].split = job.split

\* C6: every SelectorJob of the 'all' strategy depends on exactly one
\* AlgorithmJob for each configured algorithm, in the configured order, each
\* with the SelectorJob's seed, task and split, and there is exactly one such
\* SelectorJob for each (seed, task, split).
C6_AllDependencies ==
    /\ ret.op = "selector_jobs_all" =>
        /\ ret.raised = "None"
        /\ Len(ret.value) = Len(config.seeds) * Len(config.openml_tasks)
                            * Len(config.data_splits)
        /\ \A k \in DOMAIN ret.value :
              /\ ret.value[k].name = ret.selector_config.name
              /\ DependsOnAll(ret.value[k])
        /\ \A s \in Range(config.seeds), t \in Range(config.openml_tasks),
              p \in Range(config.data_splits) :
              JobsFor(ret.value, s, t, p, ret.selector_config.name) =
                  Count(config.seeds, s) * Count(config.openml_tasks, t)
                  * Count(config.data_splits, p)
    /\ (ret.op = "selector_jobs" /\ ret.raised = "None") =>
        \A i \in DOMAIN config.selectors :
            config.selectors[i].type = "all" =>
                /\ \A k \in DOMAIN ret.value :
                      ret.value[k].name = config.selectors[i].name =>
                          DependsOnAll(ret.value[k])
                /\ \A s \in Range(config.seeds),
                      t \in Range(config.openml_tasks),
                      p \in Range(config.data_splits) :
                      JobsFor(ret.value, s, t, p, config.selectors[i].name) =
                          Count(config.seeds, s) * Count(config.openml_tasks, t)
                          * Count(config.data_splits, p)
                          * Cardinality({j \in DOMAIN config.selectors :
                                config.selectors[j] = config.selectors[i]})

\* the 'all' strategy called with 3 algorithms configured
C6_Witness ==
    /\ ret.op = "selector_jobs_all" /\ ret.selector_config.type = "all"
    /\ Len(config.algorithms) = 3
    /\ Len(ret.value) = MaxSeeds
    /\ Len(ret.value[1].algo_jobs) = 3

---------------------------------------------------------------------------
(* The random subset selector. *)

\* what the last call of selector_jobs_n_random drew
DrawnNow == Drawn(config, ret.selector_config, ret.value)

\* C5: two selections with the same algorithms, count n and selection seed s
\* give the same subset in the same order, in one call and from one call to
\* a later one; each is what a generator newly made from s*n gives, whatever
\* was selected before.
C5_SelectionDeterministic ==
    ret.op = "selector_jobs_n_random" =>
    /\ \A x \in DrawnNow, y \in DrawnNow \cup sampled :
          (x.n = y.n /\ x.s = y.s) => x.algorithms = y.algorithms
    /\ \A x \in DrawnNow :
          x.algorithms = sample(Random(x.s * x.n), config.algorithms,
                                x.n).value

\* seed 2 selected second in this call (after seed 1) and first in the first
\* call, 2 of 3 algorithms each time
C5_Witness ==
    /\ ret.op = "selector_jobs_n_random"
    /\ ret.selector_config.n = 2 /\ Len(config.algorithms) = 3
    /\ config.algorithms[1] # config.algorithms[2]
    /\ ret.selector_config.selection_seeds = <<1, 2>>
    /\ ret.value # <<>>
    /\ \E y \in sampled : y.n = 2 /\ y.s = 2
    /\ \A y \in sampled : y.s # 1

\* how many (seed, task, split) there are
PerSelector ==
    Len(config.seeds) * Len(config.openml_tasks) * Len(config.data_splits)

\* names are n entries of the configured algorithms, no entry taken twice
DistinctConfigured(names, n) ==
    /\ Len(names) = n
    /\ \E f \in [1..n -> DOMAIN config.algorithms] :
          /\ \A i, j \in 1..n : i # j => f[i] # f[j]
          /\ \A i \in 1..n : names[i] = config.algorithms[f[i]]

---------------------------------------------------------------------------
(* The job graph facade. *)

\* algorithm jobs, then selector jobs, then baseline jobs
Unfiltered ==
    algorithm_jobs(config).value \o selector_jobs(config).value
    \o baseline_jobs(config).value

\* the k-th smallest of a set of numbers
Nth(numbers, k) ==
    CHOOSE i \in numbers : Cardinality({j \in numbers : j <= i}) = k

\* C7: for each of the seven filter names p and whatever the backend
\* reports, jobs(filter_by=p) returns the jobs of the unfiltered sequence
\* for which p() is true, in their order: every job returned satisfies p and
\* no job left out does.
C7_FilterByPredicate ==
    (ret.op = "jobs" /\ ret.filter_by \in
        {"ready", "failed", "blocked", "pending", "running", "complete",
         "in_progress"}) =>
    LET keep == {i \in DOMAIN Unfiltered :
                    job_query(ret.filter_by, Unfiltered[i], ret.env.life)}
    IN  /\ ret.raised = "None"
        /\ Len(ret.value) = Cardinality(keep)
        /\ \A k \in DOMAIN ret.value : ret.value[k] = Unfiltered[Nth(keep, k)]

\* jobs('in_progress') with the algorithm job running, the selector job
\* blocked and the baseline job pending
C7_Witness ==
    /\ ret.op = "jobs" /\ ret.filter_by = "in_progress"
    /\ Len(Unfiltered) = 3
    /\ ret.env.life[JobKey(Unfiltered[1])] = "running"
    /\ ret.env.life[JobKey(Unfiltered[2])] = "blocked"
    /\ ret.env.life[JobKey(Unfiltered[3])] = "pending"
    /\ Len(ret.value) = 2
    /\ nchanges > 0

\* C8: whatever was called before, an enumeration called again returns what
\* its first call returned (the same jobs with the same fields in the same
\* order, or the same error), and an enumeration leaves the configuration
\* as it found it.
C8_EnumerationIdempotent ==
    /\ (ret.op \in EnumOps /\ ret.filter_by = "None") =>
           first[ret.op] = [raised |-> ret.raised, value |-> ret.value]
    /\ ret.op \in EnumOps => ret.env.config = config

\* jobs() called after each of the four enumerations has been called, with a
\* selector that draws at random and a scale above 1
C8_Witness ==
    /\ ret.op = "jobs" /\ ret.filter_by = "None" /\ ret.raised = "None"
    /\ \A op \in EnumOps : first[op] # NotCalled
    /\ Len(config.selectors) = 2
    /\ config.selectors[2].type = "n_random_selection"
    /\ config.baselines.scale = MaxScale /\ Len(config.seeds) = MaxSeeds
    /\ Len(ret.value) = Len(first["algorithm_jobs"].value)
                        + Len(first["selector_jobs"].value)
                        + Len(first["baseline_jobs"].value)
    /\ Len(first["selector_jobs"].value) = 3 * MaxSeeds

\* C10: create() makes the configured directory and the root directory if
\* they are missing and then calls create() on every job of jobs() in order;
\* when a job's create() fails the error leaves create(), the jobs before it
\* stay created, and a create() called again does not fail on what is there
\* and again calls create() on every job.
C10_CreateRepeatable ==
    ret.op = "create" =>
    LET before == ret.env.disk
        sequence == jobs(config, "None", ret.env.life)
        n == Len(ret.created)
    IN  /\ ret.raised # "FileExistsError"
        /\ before.jobs \subseteq disk.jobs
        /\ before.dir => disk.dir
        /\ before.root => disk.root
        /\ ret.raised = "None" =>
              /\ disk.dir /\ disk.root
              /\ sequence.raised = "None"
              /\ ret.created = sequence.value
              /\ \A i \in DOMAIN sequence.value :
                    JobKey(sequence.value[i]) \in disk.jobs
        /\ n > 0 =>
              /\ disk.dir /\ disk.root
              /\ ret.created = SubSeq(sequence.value, 1, n)
              /\ \A i \in 1..(n - 1) :
                    JobKey(sequence.value[i]) \in disk.jobs
        /\ (ret.raised # "None" /\ n = 0) =>
              /\ disk.jobs = before.jobs
              /\ ret.raised = "OSError" => (~before.dir \/ ~before.root)
              /\ ret.raised # "OSError" =>
                    (disk.dir /\ disk.root /\ ret.raised = sequence.raised)

\* a create() that succeeds after one that failed partway: some jobs but not
\* all were there before it, and it called create() on all of them
C10_Witness ==
    /\ ret.op = "create" /\ ret.raised = "None"
    /\ ret.env.disk.root
    /\ ret.env.disk.jobs # {} /\ ret.env.disk.jobs # disk.jobs
    /\ Len(ret.created) = 8

=============================================================================
